---- MODULE Spec2Model ----
(***************************************************************************)
(* Model of the finance-api bookkeeping backend: the SQLite store of       *)
(* database_v5.py (FinanceSystemV5) and the create_report endpoint of      *)
(* api_server.py.                                                          *)
(*                                                                         *)
(* Tables are sequences; the AUTOINCREMENT id of a row is its index.       *)
(* Every FinanceSystemV5 method ends with conn.commit(), so each call is   *)
(* one atomic step on the store.  The create_report endpoint is a          *)
(* synchronous FastAPI handler (run on a thread pool), with its own        *)
(* connection, making several such calls: it is a process whose position   *)
(* is req[r].pc, and two handlers interleave between calls.                *)
(*                                                                         *)
(* Five specifications share the variables and the actions:                *)
(*   Spec        the store driven through the methods of FinanceSystemV5;  *)
(*   SpecApi     one create_report handler and the payment methods it      *)
(*               reads;                                                    *)
(*   SpecRace    concurrent create_report handlers;                        *)
(*   SpecCash    reports created by create_report, then counted and        *)
(*               closed through the store;                                 *)
(*   SpecDelete  accounts, payment methods and locations in use, and       *)
(*               soft-deleted.                                             *)
(*                                                                         *)
(* Money: amounts are drawn from multiples of 100 and commission           *)
(* percentages from multiples of 5, for which amount * (percent / 100)     *)
(* is exact in binary floating point, so integer arithmetic computes the   *)
(* same values as the code.                                                *)
(***************************************************************************)
EXTENDS Integers, Sequences, FiniteSets, TLC

\* ------------------------------------------------------------------ bounds
MaxAccounts == 2
MaxMethods == 1
MaxLocations == 1
MaxReports == 2
MaxLines == 2
NumRequests == 2

\* SQL NULL / Python None.  No id, amount or sum of the model equals it:
\* ids are >= 1 and money values are multiples of 5.
NULL == 0 - 1

\* closed_at = CURRENT_TIMESTAMP: the model keeps only "set".
CURRENT_TIMESTAMP == 1

Reqs == 1..NumRequests

\* report dates <<year, month, day>> a request can carry
Dates == {<<2024, 9, 30>>, <<2024, 10, 1>>}

AccountTypes == {"cash", "bank"}
Percents == {0, 10}
\* the amount of a request entry
Amounts == {0 - 100, 0, 100}
\* the amount of a line added on the store directly
LineAmounts == {100}
\* request.cash_actual (0 is the default of the request model)
CashValues == {0, 400}
\* the arguments of update_report_cash
ExpectedValues == {500}
ActualValues == {400}

AccountIds == 1..MaxAccounts
MethodIds == 1..MaxMethods
\* one id beyond the locations table: a request may name a location that
\* has no row (foreign keys are not enforced: connect() sets no PRAGMA)
LocationIds == 1..(MaxLocations + 1)

VARIABLES accounts, methods, locations, reports, payments, incomes, expenses, req

vars == <<accounts, methods, locations, reports, payments, incomes, expenses, req>>

\* ------------------------------------------------------------------ strings
\* A string is the sequence of its character codes.
Digit(n) == 48 + n

Hyphen == 45

RECURSIVE Pad(_, _)
\* "%0<w>d" % n
Pad(n, w) == IF w = 0 THEN <<>> ELSE Append(Pad(n \div 10, w - 1), Digit(n % 10))

\* date.isoformat(): "%04d-%02d-%02d"
IsoFormat(d) == Pad(d[1], 4) \o <<Hyphen>> \o Pad(d[2], 2) \o <<Hyphen>> \o Pad(d[3], 2)

RECURSIVE StrLess(_, _)
\* s < t for str (Python) and TEXT with BINARY collation (SQLite)
StrLess(s, t) ==
    IF t = <<>> THEN FALSE
    ELSE IF s = <<>> THEN TRUE
    ELSE IF Head(s) # Head(t) THEN Head(s) < Head(t)
    ELSE StrLess(Tail(s), Tail(t))

RECURSIVE ParseFields(_, _, _)
\* the numbers between the hyphens of s
ParseFields(s, number, fields) ==
    IF s = <<>> THEN Append(fields, number)
    ELSE IF Head(s) = Hyphen THEN ParseFields(Tail(s), 0, Append(fields, number))
    ELSE ParseFields(Tail(s), 10 * number + (Head(s) - 48), fields)

\* datetime.strptime(s, '%Y-%m-%d').date(): leading zeros are optional
strptime(s) == ParseFields(s, 0, <<>>)

RECURSIVE Decimal(_)
\* str(n)
Decimal(n) == IF n < 10 THEN <<Digit(n)>> ELSE Append(Decimal(n \div 10), Digit(n % 10))

\* request.report_date as clients send it: zero-padded or not
DateStrings ==
    {IsoFormat(d) : d \in Dates}
        \cup {Decimal(d[1]) \o <<Hyphen>> \o Decimal(d[2]) \o <<Hyphen>> \o Decimal(d[3]) : d \in Dates}

\* d1 is an earlier day than d2
DateLess(d1, d2) ==
    \/ d1[1] < d2[1]
    \/ d1[1] = d2[1] /\ d1[2] < d2[2]
    \/ d1[1] = d2[1] /\ d1[2] = d2[2] /\ d1[3] < d2[3]

\* ------------------------------------------------------------------ helpers
RowIds(table) == 1..Len(table)

\* a worker that serves no request; db_open: a connection opened by a
\* request of this worker is open
Idle == [pc |-> "idle", report_date |-> NULL, location_id |-> NULL,
         report_id |-> NULL, method_id |-> NULL, account_id |-> NULL,
         amount |-> NULL, status_code |-> NULL, db_open |-> FALSE]

Init ==
    /\ accounts = <<>>
    /\ methods = <<>>
    /\ locations = <<>>
    /\ reports = <<>>
    /\ payments = <<>>
    /\ incomes = <<>>
    /\ expenses = <<>>
    /\ req = [r \in Reqs |-> Idle]

\* ------------------------------------------------------------------ accounts
\* add_account(name, account_type): the later definition of the class
add_account(account_type) ==
    /\ Len(accounts) < MaxAccounts
    /\ accounts' = Append(accounts, [account_type |-> account_type, is_active |-> TRUE])
    /\ UNCHANGED <<methods, locations, reports, payments, incomes, expenses, req>>

\* update_account(account_id, name, account_type, is_active)
update_account(account_id, account_type, is_active) ==
    /\ account_id \in RowIds(accounts)
    /\ accounts' = [accounts EXCEPT ![account_id] =
                        [account_type |-> account_type, is_active |-> is_active]]
    /\ UNCHANGED <<methods, locations, reports, payments, incomes, expenses, req>>

\* delete_account(account_id): soft delete
delete_account(account_id) ==
    /\ account_id \in RowIds(accounts)
    /\ accounts' = [accounts EXCEPT ![account_id].is_active = FALSE]
    /\ UNCHANGED <<methods, locations, reports, payments, incomes, expenses, req>>

\* get_accounts(): the active accounts
get_accounts == {a \in RowIds(accounts) : accounts[a].is_active}

\* ------------------------------------------------------------------ payment methods
\* add_payment_method(name, method_type, commission, account_id)
add_payment_method(commission, account_id) ==
    /\ Len(methods) < MaxMethods
    /\ methods' = Append(methods, [default_account_id |-> account_id,
                                   commission_percent |-> commission,
                                   is_active |-> TRUE])
    /\ UNCHANGED <<accounts, locations, reports, payments, incomes, expenses, req>>

\* update_payment_method(method_id, name, method_type, commission, account_id, is_active)
update_payment_method(method_id, commission, account_id, is_active) ==
    /\ method_id \in RowIds(methods)
    /\ methods' = [methods EXCEPT ![method_id] =
                       [default_account_id |-> account_id,
                        commission_percent |-> commission,
                        is_active |-> is_active]]
    /\ UNCHANGED <<accounts, locations, reports, payments, incomes, expenses, req>>

\* delete_payment_method(method_id): soft delete
delete_payment_method(method_id) ==
    /\ method_id \in RowIds(methods)
    /\ methods' = [methods EXCEPT ![method_id].is_active = FALSE]
    /\ UNCHANGED <<accounts, locations, reports, payments, incomes, expenses, req>>

\* get_payment_methods(): the active methods
get_payment_methods == {m \in RowIds(methods) : methods[m].is_active}

\* ------------------------------------------------------------------ locations
add_location ==
    /\ Len(locations) < MaxLocations
    /\ locations' = Append(locations, [is_active |-> TRUE])
    /\ UNCHANGED <<accounts, methods, reports, payments, incomes, expenses, req>>

\* delete_location(location_id): soft delete
delete_location(location_id) ==
    /\ location_id \in RowIds(locations)
    /\ locations' = [locations EXCEPT ![location_id].is_active = FALSE]
    /\ UNCHANGED <<accounts, methods, reports, payments, incomes, expenses, req>>

\* get_locations(): the active locations
get_locations == {l \in RowIds(locations) : locations[l].is_active}

\* ------------------------------------------------------------------ daily reports
\* a daily_reports table declared without its UNIQUE constraint
UniqueReportUndeclared(report_date, location_id) == TRUE

\* daily_reports: UNIQUE(report_date, location_id)
UniqueReport(report_date, location_id) ==
    \A i \in RowIds(reports) :
        ~(reports[i].report_date = report_date /\ reports[i].location_id = location_id)

\* create_daily_report's INSERT raises sqlite3.IntegrityError
create_daily_report_fails(d, location_id) == ~UniqueReport(IsoFormat(d), location_id)

\* the row create_daily_report inserts: status defaults to 'open', the cash
\* columns and closed_at to NULL
NewReport(d, location_id) ==
    [report_date |-> IsoFormat(d), location_id |-> location_id,
     cash_expected |-> NULL, cash_actual |-> NULL, cash_difference |-> NULL,
     status |-> "open", closed_at |-> NULL]

\* get_daily_report(report_date, location_id): daily_reports JOIN locations;
\* the id of the row found, or NULL (None)
get_daily_report(d, location_id) ==
    LET found == {i \in RowIds(reports) :
                     /\ reports[i].report_date = IsoFormat(d)
                     /\ reports[i].location_id = location_id
                     /\ reports[i].location_id \in RowIds(locations)}
    IN IF found = {} THEN NULL ELSE CHOOSE i \in found : \A j \in found : i <= j

\* the difference taken the other way round
CashDifferenceShortfall(cash_expected, cash_actual) == cash_expected - cash_actual

\* cash_difference = cash_actual - cash_expected
CashDifference(cash_expected, cash_actual) == cash_actual - cash_expected

\* update_report_cash(report_id, cash_expected, cash_actual, cash_breakdown)
update_report_cash(report_id, cash_expected, cash_actual) ==
    /\ report_id \in RowIds(reports)
    /\ reports' = [reports EXCEPT ![report_id].cash_expected = cash_expected,
                                  ![report_id].cash_actual = cash_actual,
                                  ![report_id].cash_difference =
                                      CashDifference(cash_expected, cash_actual)]
    /\ UNCHANGED <<accounts, methods, locations, payments, incomes, expenses, req>>

\* close_report(report_id)
close_report(report_id) ==
    /\ report_id \in RowIds(reports)
    /\ reports' = [reports EXCEPT ![report_id].status = "closed",
                                  ![report_id].closed_at = CURRENT_TIMESTAMP]
    /\ UNCHANGED <<accounts, methods, locations, payments, incomes, expenses, req>>

\* ------------------------------------------------------------------ report lines
\* commission_percent = method[0] if method else 0
CommissionPercent(payment_method_id) ==
    IF payment_method_id \in RowIds(methods)
    THEN methods[payment_method_id].commission_percent
    ELSE 0

\* commission_amount = amount * (commission_percent / 100)
CommissionAmount(amount, commission_percent) == (amount * commission_percent) \div 100

\* the gross amount stored as net_amount
NetAmountGross(amount, commission_amount) == amount

\* net_amount = amount - commission_amount
NetAmount(amount, commission_amount) == amount - commission_amount

\* the row add_report_payment inserts
NewPayment(report_id, payment_method_id, account_id, amount) ==
    LET commission_amount == CommissionAmount(amount, CommissionPercent(payment_method_id))
    IN [report_id |-> report_id, payment_method_id |-> payment_method_id,
        account_id |-> account_id, amount |-> amount,
        commission_amount |-> commission_amount,
        net_amount |-> NetAmount(amount, commission_amount)]

\* report_payments.account_id is NOT NULL: the INSERT raises IntegrityError
add_report_payment_fails(account_id) == account_id = NULL

\* the row add_non_sales_income / add_report_expense inserts
NewLine(report_id, account_id, amount) ==
    [report_id |-> report_id, account_id |-> account_id, amount |-> amount]

TotalLines == Len(payments) + Len(incomes) + Len(expenses)

\* create_daily_report(report_date, location_id, total_sales, created_by),
\* called on the store directly; a UNIQUE violation raises and changes nothing
create_daily_report(d, location_id) ==
    /\ Len(reports) < MaxReports
    /\ IF create_daily_report_fails(d, location_id)
       THEN UNCHANGED reports
       ELSE reports' = Append(reports, NewReport(d, location_id))
    /\ UNCHANGED <<accounts, methods, locations, payments, incomes, expenses, req>>

\* add_report_payment(report_id, payment_method_id, account_id, amount)
add_report_payment(report_id, payment_method_id, account_id, amount) ==
    /\ TotalLines < MaxLines
    /\ IF add_report_payment_fails(account_id)
       THEN UNCHANGED payments
       ELSE payments' = Append(payments, NewPayment(report_id, payment_method_id,
                                                    account_id, amount))
    /\ UNCHANGED <<accounts, methods, locations, reports, incomes, expenses, req>>

\* add_non_sales_income(report_id, account_id, amount, category_id, description)
add_non_sales_income(report_id, account_id, amount) ==
    /\ TotalLines < MaxLines
    /\ incomes' = Append(incomes, NewLine(report_id, account_id, amount))
    /\ UNCHANGED <<accounts, methods, locations, reports, payments, expenses, req>>

\* add_report_expense(report_id, account_id, amount, category_id, description)
add_report_expense(report_id, account_id, amount) ==
    /\ TotalLines < MaxLines
    /\ expenses' = Append(expenses, NewLine(report_id, account_id, amount))
    /\ UNCHANGED <<accounts, methods, locations, reports, payments, incomes, req>>

\* ------------------------------------------------------------------ balance engine
RECURSIVE SqlSum(_)
\* SUM(column) over the selected rows: NULL values are skipped, and the sum
\* of no value is NULL
SqlSum(values) ==
    IF values = <<>> THEN NULL
    ELSE LET h == Head(values)
             rest == SqlSum(Tail(values))
         IN IF h = NULL THEN rest
            ELSE IF rest = NULL THEN h
            ELSE h + rest

\* Python's "x or 0" on the fetched sum
OrZero(x) == IF x = NULL \/ x = 0 THEN 0 ELSE x

\* SELECT SUM(cash_actual) FROM daily_reports WHERE status='closed'
CashSum ==
    LET rows == SelectSeq(reports, LAMBDA dr : dr.status = "closed")
    IN SqlSum([i \in 1..Len(rows) |-> rows[i].cash_actual])

\* the net amounts derived again from the methods' current commission
NetSumLive(acc_id) ==
    LET rows == SelectSeq(payments, LAMBDA rp : rp.account_id = acc_id)
    IN SqlSum([i \in 1..Len(rows) |->
                  rows[i].amount
                      - (rows[i].amount * CommissionPercent(rows[i].payment_method_id)) \div 100])

\* SELECT SUM(net_amount) FROM report_payments WHERE account_id=?
NetSum(acc_id) ==
    LET rows == SelectSeq(payments, LAMBDA rp : rp.account_id = acc_id)
    IN SqlSum([i \in 1..Len(rows) |-> rows[i].net_amount])

\* the sum taken without its WHERE account_id=? clause
AmountSumAnyAccount(table, acc_id) ==
    SqlSum([i \in 1..Len(table) |-> table[i].amount])

\* SELECT SUM(amount) FROM <line table> WHERE account_id=?
AmountSum(table, acc_id) ==
    LET rows == SelectSeq(table, LAMBDA row : row.account_id = acc_id)
    IN SqlSum([i \in 1..Len(rows) |-> rows[i].amount])

\* the cash branch treated like the bank branch on top of the counted cash:
\* the account's income lines added, its expense lines subtracted
AccountBalanceCashLedger(acc_id) ==
    LET sales_income == IF accounts[acc_id].account_type = "cash"
                        THEN OrZero(CashSum)
                        ELSE OrZero(NetSum(acc_id))
        non_sales == OrZero(AmountSum(incomes, acc_id))
        spent == OrZero(AmountSum(expenses, acc_id))
    IN [balance |-> sales_income + non_sales - spent, sales_income |-> sales_income,
        non_sales_income |-> non_sales, expenses |-> spent]

\* the entry of get_account_balance() for one account
AccountBalance(acc_id) ==
    IF accounts[acc_id].account_type = "cash"
    THEN LET balance == OrZero(CashSum)
         IN [balance |-> balance, sales_income |-> balance,
             non_sales_income |-> 0, expenses |-> 0]
    ELSE LET sales_income == OrZero(NetSum(acc_id))
             non_sales == OrZero(AmountSum(incomes, acc_id))
             spent == OrZero(AmountSum(expenses, acc_id))
         IN [balance |-> sales_income + non_sales - spent, sales_income |-> sales_income,
             non_sales_income |-> non_sales, expenses |-> spent]

\* get_account_balance(): one entry per active account
get_account_balance == [acc_id \in get_accounts |-> AccountBalance(acc_id)]

\* ------------------------------------------------------------------ history engine
\* An entry keeps date, report_id, amount and operation_type of the code's
\* dict; description and location are left out, and kind and row name the
\* table row the entry was selected from.

RECURSIVE InsertDesc(_, _)
\* e goes after every entry whose date is >= its own: equal dates keep
\* their order
InsertDesc(sorted, e) ==
    IF sorted = <<>> THEN <<e>>
    ELSE IF StrLess(Head(sorted).date, e.date) THEN <<e>> \o sorted
    ELSE <<Head(sorted)>> \o InsertDesc(Tail(sorted), e)

RECURSIVE SortDesc(_)
\* ORDER BY dr.report_date DESC, and history.sort(key=date, reverse=True)
SortDesc(entries) ==
    IF entries = <<>> THEN <<>>
    ELSE InsertDesc(SortDesc(SubSeq(entries, 1, Len(entries) - 1)), entries[Len(entries)])

RECURSIVE Collect(_, _, _)
\* the entries of the rows i..n in row order: rowEntry[k] is <<entry>> for
\* a row the query selects and <<>> for a row it does not
Collect(i, n, rowEntry) ==
    IF i > n THEN <<>>
    ELSE (IF rowEntry[i] = <<>> THEN <<>> ELSE <<rowEntry[i][1]>>) \o Collect(i + 1, n, rowEntry)

\* cash branch: one entry per closed report
CashEntries ==
    Collect(1, Len(reports),
        [i \in RowIds(reports) |->
            IF reports[i].status = "closed"
            THEN <<[date |-> reports[i].report_date, report_id |-> i,
                    amount |-> reports[i].cash_actual, operation_type |-> "+",
                    kind |-> "cash", row |-> i]>>
            ELSE <<>>])

\* the bank branch joining the active payment methods only
PaymentEntriesActiveMethods(account_id) ==
    Collect(1, Len(payments),
        [i \in RowIds(payments) |->
            IF /\ payments[i].account_id = account_id
               /\ payments[i].report_id \in RowIds(reports)
               /\ payments[i].payment_method_id \in get_payment_methods
            THEN <<[date |-> reports[payments[i].report_id].report_date,
                    report_id |-> payments[i].report_id,
                    amount |-> payments[i].net_amount, operation_type |-> "+",
                    kind |-> "payment", row |-> i]>>
            ELSE <<>>])

\* bank branch: report_payments JOIN daily_reports JOIN payment_methods
PaymentEntries(account_id) ==
    Collect(1, Len(payments),
        [i \in RowIds(payments) |->
            IF /\ payments[i].account_id = account_id
               /\ payments[i].report_id \in RowIds(reports)
               /\ payments[i].payment_method_id \in RowIds(methods)
            THEN <<[date |-> reports[payments[i].report_id].report_date,
                    report_id |-> payments[i].report_id,
                    amount |-> payments[i].net_amount, operation_type |-> "+",
                    kind |-> "payment", row |-> i]>>
            ELSE <<>>])

\* non_sales_income / report_expenses JOIN daily_reports
LineEntries(table, account_id, operation_type, kind) ==
    Collect(1, Len(table),
        [i \in RowIds(table) |->
            IF /\ table[i].account_id = account_id
               /\ table[i].report_id \in RowIds(reports)
            THEN <<[date |-> reports[table[i].report_id].report_date,
                    report_id |-> table[i].report_id,
                    amount |-> table[i].amount, operation_type |-> operation_type,
                    kind |-> kind, row |-> i]>>
            ELSE <<>>])

\* the three streams appended, the final history.sort left out
get_account_history_unsorted(account_id) ==
    IF account_id \notin RowIds(accounts) THEN <<>>
    ELSE (IF accounts[account_id].account_type = "cash"
          THEN SortDesc(CashEntries)
          ELSE SortDesc(PaymentEntries(account_id)))
         \o SortDesc(LineEntries(incomes, account_id, "+", "income"))
         \o SortDesc(LineEntries(expenses, account_id, "-", "expense"))

\* get_account_history(account_id)
get_account_history(account_id) ==
    IF account_id \notin RowIds(accounts) THEN <<>>
    ELSE LET first == IF accounts[account_id].account_type = "cash"
                      THEN SortDesc(CashEntries)
                      ELSE SortDesc(PaymentEntries(account_id))
             history == first
                        \o SortDesc(LineEntries(incomes, account_id, "+", "income"))
                        \o SortDesc(LineEntries(expenses, account_id, "-", "expense"))
         IN SortDesc(history)

\* ------------------------------------------------------------------ create_report
\* POST /api/create_report.  The entries of request.payments, request.expenses
\* and request.incomes and request.cash_actual are drawn when the handler
\* reaches them: it reads none of them earlier.

\* requests that have not yet inserted their report
Arriving == {q \in Reqs : req[q].pc \in {"check", "insert"}}

\* requests between get_payment_methods() and add_report_payment()
Adding == {q \in Reqs : req[q].pc = "add_payment"}

\* the handler is entered: db = get_db(),
\* report_date = datetime.strptime(request.report_date, '%Y-%m-%d').date()
Receive(r, report_date, location_id) ==
    /\ req[r].pc = "idle"
    /\ Len(reports) + Cardinality(Arriving) < MaxReports
    /\ req' = [req EXCEPT ![r] = [Idle EXCEPT !.pc = "check",
                                              !.report_date = strptime(report_date),
                                              !.location_id = location_id,
                                              !.db_open = TRUE]]
    /\ UNCHANGED <<accounts, methods, locations, reports, payments, incomes, expenses>>

\* existing = db.get_daily_report(...); if existing: raise HTTPException(400)
CheckExisting(r) ==
    /\ req[r].pc = "check"
    /\ IF get_daily_report(req[r].report_date, req[r].location_id) # NULL
       THEN req' = [req EXCEPT ![r].pc = "done", ![r].status_code = 400]
       ELSE req' = [req EXCEPT ![r].pc = "insert"]
    /\ UNCHANGED <<accounts, methods, locations, reports, payments, incomes, expenses>>

\* report_id = db.create_daily_report(...); an IntegrityError is caught by
\* "except Exception" and becomes HTTP 500
InsertReport(r) ==
    /\ req[r].pc = "insert"
    /\ IF create_daily_report_fails(req[r].report_date, req[r].location_id)
       THEN /\ req' = [req EXCEPT ![r].pc = "done", ![r].status_code = 500]
            /\ UNCHANGED reports
       ELSE /\ reports' = Append(reports, NewReport(req[r].report_date, req[r].location_id))
            /\ req' = [req EXCEPT ![r].pc = "payments", ![r].report_id = Len(reports) + 1]
    /\ UNCHANGED <<accounts, methods, locations, payments, incomes, expenses>>

\* an entry that is posted although its amount is 0
IsGivenOrZero(amount) == amount >= 0

\* if payment.amount > 0 / if expense.amount > 0 / if income.amount > 0
IsGiven(amount) == amount > 0

\* one iteration of "for payment in request.payments", up to the lookup of
\* the method among db.get_payment_methods(); the loop variable keeps the
\* entry, whether it is posted or skipped
PaymentEntry(r, method_id, amount) ==
    /\ req[r].pc = "payments"
    /\ IF IsGiven(amount) /\ method_id \in get_payment_methods
       THEN /\ TotalLines + Cardinality(Adding) < MaxLines
            /\ req' = [req EXCEPT ![r].pc = "add_payment",
                                  ![r].method_id = method_id,
                                  ![r].account_id = methods[method_id].default_account_id,
                                  ![r].amount = amount]
       ELSE req' = [req EXCEPT ![r].method_id = method_id, ![r].amount = amount]
    /\ UNCHANGED <<accounts, methods, locations, reports, payments, incomes, expenses>>

\* db.add_report_payment(report_id, payment.method_id, method['default_account_id'], amount)
AddPayment(r) ==
    /\ req[r].pc = "add_payment"
    /\ IF add_report_payment_fails(req[r].account_id)
       THEN /\ req' = [req EXCEPT ![r].pc = "done", ![r].status_code = 500]
            /\ UNCHANGED payments
       ELSE /\ payments' = Append(payments, NewPayment(req[r].report_id, req[r].method_id,
                                                       req[r].account_id, req[r].amount))
            /\ req' = [req EXCEPT ![r].pc = "payments", ![r].account_id = NULL]
    /\ UNCHANGED <<accounts, methods, locations, reports, incomes, expenses>>

\* request.payments is exhausted; the loop variable is dropped
PaymentsDone(r) ==
    /\ req[r].pc = "payments"
    /\ req' = [req EXCEPT ![r].pc = "expenses", ![r].method_id = NULL, ![r].amount = NULL]
    /\ UNCHANGED <<accounts, methods, locations, reports, payments, incomes, expenses>>

\* one iteration of "for expense in request.expenses": account_id = 1
ExpenseEntry(r, amount) ==
    /\ req[r].pc = "expenses"
    /\ IF IsGiven(amount)
       THEN /\ TotalLines + Cardinality(Adding) < MaxLines
            /\ expenses' = Append(expenses, NewLine(req[r].report_id, 1, amount))
       ELSE UNCHANGED expenses
    /\ req' = [req EXCEPT ![r].amount = amount]
    /\ UNCHANGED <<accounts, methods, locations, reports, payments, incomes>>

\* request.expenses is exhausted; the loop variable is dropped
ExpensesDone(r) ==
    /\ req[r].pc = "expenses"
    /\ req' = [req EXCEPT ![r].pc = "incomes", ![r].amount = NULL]
    /\ UNCHANGED <<accounts, methods, locations, reports, payments, incomes, expenses>>

\* one iteration of "for income in request.incomes": account_id = 1
IncomeEntry(r, amount) ==
    /\ req[r].pc = "incomes"
    /\ IF IsGiven(amount)
       THEN /\ TotalLines + Cardinality(Adding) < MaxLines
            /\ incomes' = Append(incomes, NewLine(req[r].report_id, 1, amount))
       ELSE UNCHANGED incomes
    /\ req' = [req EXCEPT ![r].amount = amount]
    /\ UNCHANGED <<accounts, methods, locations, reports, payments, expenses>>

\* request.incomes is exhausted; the loop variable is dropped
IncomesDone(r) ==
    /\ req[r].pc = "incomes"
    /\ req' = [req EXCEPT ![r].pc = "cash", ![r].amount = NULL]
    /\ UNCHANGED <<accounts, methods, locations, reports, payments, incomes, expenses>>

\* if request.cash_actual > 0: UPDATE daily_reports SET cash_actual = ?,
\* status = 'closed' WHERE id = ?; then the 200 response
SetCash(r, cash_actual) ==
    /\ req[r].pc = "cash"
    /\ IF cash_actual > 0
       THEN reports' = [reports EXCEPT ![req[r].report_id].cash_actual = cash_actual,
                                       ![req[r].report_id].status = "closed"]
       ELSE UNCHANGED reports
    /\ req' = [req EXCEPT ![r].pc = "done", ![r].status_code = 200]
    /\ UNCHANGED <<accounts, methods, locations, payments, incomes, expenses>>

\* the handler returns or raises, and the response is sent; the worker can
\* serve another request.  No path calls db.close(): the connection is
\* closed when the interpreter finalizes the FinanceSystemV5 object that
\* nothing refers to any more, which has happened by now or has not.
Respond(r) ==
    /\ req[r].pc = "done"
    /\ \E still_open \in BOOLEAN : req' = [req EXCEPT ![r] = [Idle EXCEPT !.db_open = still_open]]
    /\ UNCHANGED <<accounts, methods, locations, reports, payments, incomes, expenses>>

\* the interpreter finalizes the object a finished request left behind: its
\* sqlite3 connection is closed
Finalize(r) ==
    /\ req[r].pc = "idle"
    /\ req[r].db_open
    /\ req' = [req EXCEPT ![r].db_open = FALSE]
    /\ UNCHANGED <<accounts, methods, locations, reports, payments, incomes, expenses>>

\* ------------------------------------------------------------------ specifications
\* The store used through the methods of FinanceSystemV5.
Next ==
    \/ \E t \in AccountTypes : add_account(t)
    \/ \E a \in AccountIds, t \in AccountTypes, b \in BOOLEAN : update_account(a, t, b)
    \/ \E a \in AccountIds : delete_account(a)
    \/ \E c \in Percents : add_payment_method(c, 1)
    \/ \E m \in MethodIds, c \in Percents, b \in BOOLEAN : update_payment_method(m, c, 1, b)
    \/ \E m \in MethodIds : delete_payment_method(m)
    \/ \E d \in Dates : create_daily_report(d, 1)
    \/ \E i \in 1..MaxReports, m \in MethodIds, a \in AccountIds, x \in LineAmounts :
           add_report_payment(i, m, a, x)
    \/ \E i \in 1..MaxReports, a \in AccountIds, x \in LineAmounts :
           add_non_sales_income(i, a, x)
    \/ \E i \in 1..MaxReports, a \in AccountIds, x \in LineAmounts :
           add_report_expense(i, a, x)
    \/ \E i \in 1..MaxReports, e \in ExpectedValues, a \in ActualValues :
           update_report_cash(i, e, a)
    \/ \E i \in 1..MaxReports : close_report(i)

Spec == Init /\ [][Next]_vars

\* One create_report handler, with the payment methods it reads.
NextApi ==
    \/ \E c \in Percents, a \in AccountIds \cup {NULL} : add_payment_method(c, a)
    \/ \E m \in MethodIds, c \in Percents, a \in AccountIds \cup {NULL}, b \in BOOLEAN :
           update_payment_method(m, c, a, b)
    \/ \E m \in MethodIds : delete_payment_method(m)
    \/ add_location
    \/ \E s \in DateStrings, l \in LocationIds : Receive(1, s, l)
    \/ CheckExisting(1)
    \/ InsertReport(1)
    \/ \E m \in MethodIds, x \in Amounts : PaymentEntry(1, m, x)
    \/ AddPayment(1)
    \/ PaymentsDone(1)
    \/ \E x \in Amounts : ExpenseEntry(1, x)
    \/ ExpensesDone(1)
    \/ \E x \in Amounts : IncomeEntry(1, x)
    \/ IncomesDone(1)
    \/ \E c \in CashValues : SetCash(1, c)
    \/ Respond(1)

SpecApi == Init /\ [][NextApi]_vars

\* Concurrent create_report handlers.
NextRace ==
    \/ add_location
    \/ \E r \in Reqs, s \in DateStrings, l \in LocationIds : Receive(r, s, l)
    \/ \E r \in Reqs : CheckExisting(r)
    \/ \E r \in Reqs : InsertReport(r)
    \/ \E r \in Reqs : PaymentsDone(r)
    \/ \E r \in Reqs, x \in Amounts : ExpenseEntry(r, x)
    \/ \E r \in Reqs : ExpensesDone(r)
    \/ \E r \in Reqs, x \in Amounts : IncomeEntry(r, x)
    \/ \E r \in Reqs : IncomesDone(r)
    \/ \E r \in Reqs, c \in CashValues : SetCash(r, c)
    \/ \E r \in Reqs : Respond(r)
    \/ \E r \in Reqs : Finalize(r)

SpecRace == Init /\ [][NextRace]_vars

\* no request is being served
Quiet == \A r \in Reqs : req[r].pc = "idle"

\* Reports created through POST /api/create_report, then counted and closed
\* through the store, one operation after the other.
NextCash ==
    \/ add_location
    \/ \E s \in DateStrings, l \in LocationIds : Receive(1, s, l)
    \/ CheckExisting(1)
    \/ InsertReport(1)
    \/ PaymentsDone(1)
    \/ ExpensesDone(1)
    \/ IncomesDone(1)
    \/ \E c \in CashValues : SetCash(1, c)
    \/ Respond(1)
    \/ \E i \in 1..MaxReports, e \in ExpectedValues \cup {0}, a \in CashValues \cup {0, 600} :
           Quiet /\ update_report_cash(i, e, a)
    \/ \E i \in 1..MaxReports : Quiet /\ close_report(i)

SpecCash == Init /\ [][NextCash]_vars

\* Accounts, payment methods and locations created, used by reports and
\* lines, and soft-deleted.
NextDelete ==
    \/ \E t \in AccountTypes : add_account(t)
    \/ \E a \in AccountIds : delete_account(a)
    \/ \E c \in Percents : add_payment_method(c, 1)
    \/ \E m \in MethodIds : delete_payment_method(m)
    \/ add_location
    \/ \E l \in LocationIds : delete_location(l)
    \/ \E d \in Dates : create_daily_report(d, 1)
    \/ \E i \in 1..MaxReports, m \in MethodIds, a \in AccountIds, x \in LineAmounts :
           add_report_payment(i, m, a, x)
    \/ \E i \in 1..MaxReports, a \in AccountIds, x \in LineAmounts :
           add_non_sales_income(i, a, x)
    \/ \E i \in 1..MaxReports, a \in AccountIds, x \in LineAmounts :
           add_report_expense(i, a, x)
    \/ \E i \in 1..MaxReports : close_report(i)

SpecDelete == Init /\ [][NextDelete]_vars

\* ------------------------------------------------------------------ report creation
\* the daily report of a (date, location) pair is in the table
HasReport(d, location_id) ==
    \E i \in RowIds(reports) :
        reports[i].report_date = IsoFormat(d) /\ reports[i].location_id = location_id

\* the handler ended without a report of its own while its pair has one
RejectedDuplicate(r) ==
    /\ req[r].pc = "done"
    /\ req[r].report_id = NULL
    /\ HasReport(req[r].report_date, req[r].location_id)

\* C1: in every reachable state, whatever the interleaving of create-report
\* requests, no two daily reports have the same (report_date, location_id).
C1_OneReportPerDateLocation ==
    \A i, j \in RowIds(reports) :
        (reports[i].report_date = reports[j].report_date
            /\ reports[i].location_id = reports[j].location_id) => i = j

\* C1 witness: a second request reached the INSERT for a pair that already
\* had its report, and was stopped there.
C1_Witness ==
    \E r \in Reqs : RejectedDuplicate(r) /\ req[r].status_code = 500

\* C2: a create-report request for a pair that already has a report ends
\* with the duplicate-report error, HTTP 400, never with HTTP 500, also when
\* two requests for the pair interleave between the check and the insert.
C2_DuplicateIsHttp400 ==
    \A r \in Reqs : RejectedDuplicate(r) => req[r].status_code = 400

\* C3: a request that fails while its lines are added leaves no report row:
\* after a failed request the report it created is not in the store.
C3_FailedRequestLeavesNoReport ==
    \A r \in Reqs :
        (req[r].pc = "done" /\ req[r].status_code = 500 /\ req[r].report_id # NULL)
            => req[r].report_id \notin RowIds(reports)

\* ------------------------------------------------------------------ commission
\* the commission percentage add_report_payment reads for a method
PercentOf(payment_method_id) ==
    IF payment_method_id \in RowIds(methods)
    THEN methods[payment_method_id].commission_percent
    ELSE 0

\* every row a step appends to report_payments carries the commission of its
\* method as it is when the step is taken, and no stored row is rewritten
PaymentRowsSnapshot ==
    \A i \in RowIds(payments') :
        IF i \in RowIds(payments)
        THEN payments'[i] = payments[i]
        ELSE 100 * payments'[i].commission_amount
                 = payments'[i].amount * PercentOf(payments'[i].payment_method_id)

\* C4: for every stored payment line, in every reachable state,
\* commission_amount + net_amount = amount, and commission_amount is
\* amount * commission_percent / 100 for the method's commission at the
\* moment the line is inserted.
C4_CommissionPlusNetIsAmount ==
    /\ [](\A i \in RowIds(payments) :
            payments[i].commission_amount + payments[i].net_amount = payments[i].amount)
    /\ [][PaymentRowsSnapshot]_vars

\* C4 witness: a stored payment line with a commission that is not 0.
C4_Witness ==
    \E i \in RowIds(payments) :
        payments[i].commission_amount > 0 /\ payments[i].net_amount > 0

\* the commission percentage of a stored method is changed by the step
CommissionChanged ==
    \E m \in RowIds(methods) :
        methods'[m].commission_percent # methods[m].commission_percent

\* C5: a step that changes a payment method's commission percentage leaves
\* every recorded payment line and every computed account balance as they
\* were; a line inserted later uses the percentage then current.
C5_CommissionChangeIsNotRetroactive ==
    /\ [][CommissionChanged =>
            /\ payments' = payments
            /\ get_account_balance' = get_account_balance]_vars
    /\ [][PaymentRowsSnapshot]_vars

\* C5 witness: an active bank account holds a payment line recorded at a
\* percentage that is no longer its method's.
C5_Witness ==
    \E i \in RowIds(payments) :
        /\ payments[i].payment_method_id \in RowIds(methods)
        /\ 100 * payments[i].commission_amount
               # payments[i].amount * methods[payments[i].payment_method_id].commission_percent
        /\ payments[i].account_id \in get_accounts
        /\ accounts[payments[i].account_id].account_type = "bank"

\* ------------------------------------------------------------------ balances
RECURSIVE Total(_, _)
\* the sum of value[i] over the rows i of a set; 0 for no row
Total(rows, value) ==
    IF rows = {} THEN 0
    ELSE LET i == CHOOSE x \in rows : TRUE
         IN value[i] + Total(rows \ {i}, value)

RowsOf(table, account_id) == {i \in RowIds(table) : table[i].account_id = account_id}

\* C6: for every bank account a balance is computed for, in every reachable
\* state, the balance is the sum of net_amount over the account's payment
\* lines plus the sum of amount over its non-sales-income lines minus the sum
\* of amount over its expense lines, an empty sum counting as 0.
C6_BankBalanceIsLedgerSum ==
    \A a \in get_accounts :
        accounts[a].account_type = "bank" =>
            get_account_balance[a].balance
                = Total(RowsOf(payments, a), [i \in RowIds(payments) |-> payments[i].net_amount])
                  + Total(RowsOf(incomes, a), [i \in RowIds(incomes) |-> incomes[i].amount])
                  - Total(RowsOf(expenses, a), [i \in RowIds(expenses) |-> expenses[i].amount])

\* C6 witness: an active bank account with a payment line net of a
\* commission and an expense line.
C6_Witness ==
    \E a \in get_accounts :
        /\ accounts[a].account_type = "bank"
        /\ \E i \in RowsOf(payments, a) : payments[i].net_amount < payments[i].amount
        /\ RowsOf(expenses, a) # {}

\* closed reports with a counted cash amount
CountedReports == {i \in RowIds(reports) : reports[i].status = "closed" /\ reports[i].cash_actual # NULL}

\* the computed balance of every active cash account
CashBalances == [a \in {x \in get_accounts : accounts[x].account_type = "cash"} |->
                    get_account_balance[a].balance]

\* C7: for every cash account the computed balance is the sum of cash_actual
\* over the closed reports, its reported non-sales income and expenses are 0,
\* and a step that adds a non-sales-income or expense line leaves the
\* balance unchanged.
C7_CashBalanceIsCountedCash ==
    /\ [](\A a \in get_accounts :
            accounts[a].account_type = "cash" =>
                /\ get_account_balance[a].balance
                       = Total(CountedReports, [i \in RowIds(reports) |-> reports[i].cash_actual])
                /\ get_account_balance[a].non_sales_income = 0
                /\ get_account_balance[a].expenses = 0)
    /\ [][(incomes' # incomes \/ expenses' # expenses) => CashBalances' = CashBalances]_vars

\* C7 witness: an active cash account with counted cash and with an expense
\* line and a non-sales-income line posted against it.
C7_Witness ==
    \E a \in get_accounts :
        /\ accounts[a].account_type = "cash"
        /\ CountedReports # {}
        /\ RowsOf(expenses, a) # {}
        /\ RowsOf(incomes, a) # {}

\* ------------------------------------------------------------------ history
\* the entries of a history that were selected from row i of a table
EntriesOf(history, kind, i) ==
    {k \in 1..Len(history) : history[k].kind = kind /\ history[k].row = i}

\* a payment line whose report and payment method are rows of the store
IntactPayment(i) ==
    /\ payments[i].report_id \in RowIds(reports)
    /\ payments[i].payment_method_id \in RowIds(methods)

\* C8: for every account, each payment, non-sales-income and expense line
\* stored with the account's id appears exactly once in its history,
\* whatever the account's type.  (Stated for the lines whose report and
\* payment method exist, as create_report records them.)
C8_EveryLineOnceInHistory ==
    \A a \in RowIds(accounts) :
        /\ \A i \in RowsOf(payments, a) :
              IntactPayment(i) =>
                  Cardinality(EntriesOf(get_account_history(a), "payment", i)) = 1
        /\ \A i \in RowsOf(incomes, a) :
              incomes[i].report_id \in RowIds(reports) =>
                  Cardinality(EntriesOf(get_account_history(a), "income", i)) = 1
        /\ \A i \in RowsOf(expenses, a) :
              expenses[i].report_id \in RowIds(reports) =>
                  Cardinality(EntriesOf(get_account_history(a), "expense", i)) = 1

\* C9: the history of an account is ordered by report date descending: no
\* entry is of an earlier day than the entry after it.
C9_HistoryNewestFirst ==
    \A a \in RowIds(accounts) :
        LET history == get_account_history(a)
        IN \A k \in 1..(Len(history) - 1) :
               ~DateLess(strptime(history[k].date), strptime(history[k + 1].date))

\* C9 witness: an expense entry stands before an entry of another stream,
\* of an earlier day.
C9_Witness ==
    \E a \in RowIds(accounts) :
        LET history == get_account_history(a)
        IN \E k \in 1..(Len(history) - 1) :
               /\ history[k].kind = "expense"
               /\ history[k + 1].kind # "expense"
               /\ DateLess(strptime(history[k + 1].date), strptime(history[k].date))

\* ------------------------------------------------------------------ lifecycle
\* C10: in every reachable state a report with status closed has cash_actual
\* set and closed_at set.
C10_ClosedHasCashAndClosedAt ==
    \A i \in RowIds(reports) :
        reports[i].status = "closed" =>
            reports[i].cash_actual # NULL /\ reports[i].closed_at # NULL

\* ------------------------------------------------------------------ cash count
\* C11: for every report whose cash_expected and cash_actual are both set,
\* cash_difference = cash_actual - cash_expected, after any sequence of
\* create_report, update_report_cash and close_report.
C11_DifferenceIsActualMinusExpected ==
    \A i \in RowIds(reports) :
        (reports[i].cash_expected # NULL /\ reports[i].cash_actual # NULL)
            => reports[i].cash_difference = reports[i].cash_actual - reports[i].cash_expected

\* C11 witness: a report that create_report closed with its cash count was
\* recounted with less cash than expected, and closed again.
C11_Witness ==
    \E i \in RowIds(reports) :
        /\ reports[i].status = "closed"
        /\ reports[i].closed_at # NULL
        /\ reports[i].cash_expected = 500
        /\ reports[i].cash_actual = 400
        /\ reports[i].cash_difference = 0 - 100
        /\ \E j \in RowIds(reports) :
               j # i /\ reports[j].status = "closed" /\ reports[j].cash_expected = NULL

\* ------------------------------------------------------------------ references
\* C12: in every reachable state the account_id of every payment, income and
\* expense line is the id of an existing account, and the payment_method_id
\* of every payment line is the id of an existing payment method.
C12_LinesReferenceExistingRows ==
    /\ \A i \in RowIds(payments) :
           /\ payments[i].account_id \in RowIds(accounts)
           /\ payments[i].payment_method_id \in RowIds(methods)
    /\ \A i \in RowIds(incomes) : incomes[i].account_id \in RowIds(accounts)
    /\ \A i \in RowIds(expenses) : expenses[i].account_id \in RowIds(accounts)

\* ------------------------------------------------------------------ skipped entries
\* every stored line has a positive amount
AllLinesPositive ==
    /\ \A i \in RowIds(payments) : payments[i].amount > 0
    /\ \A i \in RowIds(incomes) : incomes[i].amount > 0
    /\ \A i \in RowIds(expenses) : expenses[i].amount > 0

\* handler r takes, in this step, a request entry whose amount is <= 0
TakesEmptyEntry(r) ==
    /\ req'[r] # req[r]
    /\ req'[r].amount # NULL
    /\ req'[r].amount <= 0

\* handler r stays in the loop it is in, with no status set, and no line is
\* inserted
SkipsEntry(r) ==
    /\ req'[r].pc = req[r].pc
    /\ req'[r].status_code = NULL
    /\ UNCHANGED <<payments, incomes, expenses>>

\* C13: a payment, income or expense entry of a create-report request whose
\* amount is <= 0 inserts no line and raises no error, the request goes on,
\* and no line with amount <= 0 is ever stored.
C13_EmptyEntriesAreSkipped ==
    /\ []AllLinesPositive
    /\ [][\A r \in Reqs : TakesEmptyEntry(r) => SkipsEntry(r)]_vars

\* C13 witness: a request has just taken an income entry of amount 0 and is
\* still in its loop; its report has no line, while another report has an
\* expense line.
C13_Witness ==
    \E r \in Reqs :
        /\ req[r].pc = "incomes"
        /\ req[r].amount = 0
        /\ \A i \in RowIds(payments) : payments[i].report_id # req[r].report_id
        /\ \A i \in RowIds(incomes) : incomes[i].report_id # req[r].report_id
        /\ \A i \in RowIds(expenses) : expenses[i].report_id # req[r].report_id
        /\ \E i \in RowIds(expenses) : expenses[i].report_id # req[r].report_id

\* ------------------------------------------------------------------ unknown method
\* handler r is back at the head of the payment loop after an entry with a
\* positive amount whose method_id is the id of no payment method
UnknownMethodEntry(r) ==
    /\ req[r].pc = "payments"
    /\ req[r].amount # NULL
    /\ req[r].amount > 0
    /\ req[r].method_id \notin RowIds(methods)

\* C14: a payment whose method id matches no payment method is not an error:
\* a payment line is recorded for it with commission 0, so that
\* commission_amount = 0 and net_amount = amount.
C14_UnknownMethodIsRecordedWithoutCommission ==
    \A r \in Reqs :
        UnknownMethodEntry(r) =>
            \E i \in RowIds(payments) :
                /\ payments[i].report_id = req[r].report_id
                /\ payments[i].payment_method_id = req[r].method_id
                /\ payments[i].amount = req[r].amount
                /\ payments[i].commission_amount = 0
                /\ payments[i].net_amount = req[r].amount

\* ------------------------------------------------------------------ soft delete
\* this step soft-deletes an account, a payment method or a location
SoftDeletes ==
    \/ \E a \in RowIds(accounts) : accounts[a].is_active /\ ~accounts'[a].is_active
    \/ \E m \in RowIds(methods) : methods[m].is_active /\ ~methods'[m].is_active
    \/ \E l \in RowIds(locations) : locations[l].is_active /\ ~locations'[l].is_active

\* no soft-deleted row is in the listing of the active rows
DeletedRowsAreNotListed ==
    /\ \A a \in RowIds(accounts) : ~accounts[a].is_active => a \notin get_accounts
    /\ \A m \in RowIds(methods) : ~methods[m].is_active => m \notin get_payment_methods
    /\ \A l \in RowIds(locations) : ~locations[l].is_active => l \notin get_locations

\* row id of a table is soft-deleted
Deleted(table, id) == id \in RowIds(table) /\ ~table[id].is_active

\* report i is of a soft-deleted location
OfDeletedLocation(i) == i \in RowIds(reports) /\ Deleted(locations, reports[i].location_id)

\* the history of every account, active or not, has each line of the account
\* that its query selects and that references a soft-deleted account, payment
\* method or location; get_daily_report finds every report of a soft-deleted
\* location
DeletedRowsAreStillJoined ==
    /\ \A a \in RowIds(accounts) :
           LET history == get_account_history(a)
           IN /\ \A i \in RowsOf(payments, a) :
                     (/\ accounts[a].account_type = "bank"
                      /\ IntactPayment(i)
                      /\ \/ Deleted(accounts, a)
                         \/ Deleted(methods, payments[i].payment_method_id)
                         \/ OfDeletedLocation(payments[i].report_id))
                         => Cardinality(EntriesOf(history, "payment", i)) = 1
              /\ \A i \in RowsOf(incomes, a) :
                     (/\ incomes[i].report_id \in RowIds(reports)
                      /\ Deleted(accounts, a) \/ OfDeletedLocation(incomes[i].report_id))
                         => Cardinality(EntriesOf(history, "income", i)) = 1
              /\ \A i \in RowsOf(expenses, a) :
                     (/\ expenses[i].report_id \in RowIds(reports)
                      /\ Deleted(accounts, a) \/ OfDeletedLocation(expenses[i].report_id))
                         => Cardinality(EntriesOf(history, "expense", i)) = 1
              /\ \A i \in RowIds(reports) :
                     (/\ accounts[a].account_type = "cash"
                      /\ reports[i].status = "closed"
                      /\ Deleted(accounts, a) \/ OfDeletedLocation(i))
                         => Cardinality(EntriesOf(history, "cash", i)) = 1
    /\ \A i \in RowIds(reports) :
           OfDeletedLocation(i)
               => get_daily_report(strptime(reports[i].report_date), reports[i].location_id) = i

\* C15: after an account, a location or a payment method is soft-deleted it
\* is absent from the listing of active rows (get_accounts, get_locations,
\* get_payment_methods), while every report and line recorded earlier that
\* references it is still stored and still returned by the reads that join
\* on it (get_account_history, get_daily_report).
C15_SoftDeleteKeepsHistory ==
    /\ []DeletedRowsAreNotListed
    /\ []DeletedRowsAreStillJoined
    /\ [][SoftDeletes => UNCHANGED <<reports, payments, incomes, expenses>>]_vars

\* C15 witness: a bank account, the payment method of one of its payment
\* lines and the location of the line's report are all soft-deleted; the
\* account's history still has the payment and get_daily_report still finds
\* the report.
C15_Witness ==
    \E a \in RowIds(accounts), i \in RowIds(payments) :
        /\ ~accounts[a].is_active
        /\ payments[i].account_id = a
        /\ payments[i].payment_method_id \in RowIds(methods)
        /\ ~methods[payments[i].payment_method_id].is_active
        /\ payments[i].report_id \in RowIds(reports)
        /\ reports[payments[i].report_id].location_id \in RowIds(locations)
        /\ ~locations[reports[payments[i].report_id].location_id].is_active
        /\ \E k \in 1..Len(get_account_history(a)) :
               get_account_history(a)[k].kind = "payment" /\ get_account_history(a)[k].row = i
        /\ \E d \in Dates : get_daily_report(d, 1) = payments[i].report_id

\* ------------------------------------------------------------------ accounts in use
\* a payment, income or expense line is posted to the account
Referenced(a) ==
    RowsOf(payments, a) # {} \/ RowsOf(incomes, a) # {} \/ RowsOf(expenses, a) # {}

\* C16: the balance engine is not filtered by active status: a soft-deleted
\* account that has posted lines still has its entry in the computed
\* balances.
C16_DeletedAccountKeepsItsBalance ==
    \A a \in RowIds(accounts) :
        (Referenced(a) /\ ~accounts[a].is_active) => a \in DOMAIN get_account_balance

\* C17: once an account is referenced by a posted line no operation changes
\* its type (its name is not modelled); it can only be deactivated.
C17_ReferencedAccountKeepsItsType ==
    [][\A a \in RowIds(accounts) :
          Referenced(a) => accounts'[a].account_type = accounts[a].account_type]_vars

\* ------------------------------------------------------------------ cash accounts
\* C19: cash counted in a closed report is attributed to one cash account
\* only: with one or more active cash accounts, the sum of their computed
\* balances is the sum of cash_actual over the closed reports.
C19_CountedCashIsAttributedOnce ==
    DOMAIN CashBalances # {} =>
        Total(DOMAIN CashBalances, CashBalances)
            = Total(CountedReports, [i \in RowIds(reports) |-> reports[i].cash_actual])

\* ------------------------------------------------------------------ balance and history
\* the '+' entries of a history minus its '-' entries
HistorySum(history) ==
    Total(1..Len(history),
          [k \in 1..Len(history) |->
              IF history[k].operation_type = "+" THEN history[k].amount
              ELSE 0 - history[k].amount])

\* every line belongs to a report of the store
LinesHaveReports ==
    /\ \A i \in RowIds(payments) : payments[i].report_id \in RowIds(reports)
    /\ \A i \in RowIds(incomes) : incomes[i].report_id \in RowIds(reports)
    /\ \A i \in RowIds(expenses) : expenses[i].report_id \in RowIds(reports)

\* C20: for every active bank account the balance get_account_balance
\* computes is the sum of the '+' entries minus the sum of the '-' entries
\* of the account's get_account_history, after any sequence of report
\* creations, line insertions, method updates and soft deletions.  (Stated
\* for stores whose lines all belong to a report.)
C20_BalanceIsHistorySum ==
    LinesHaveReports =>
        \A a \in get_accounts :
            accounts[a].account_type = "bank" =>
                get_account_balance[a].balance = HistorySum(get_account_history(a))

\* ------------------------------------------------------------------ connections
\* C18: every operation served through the HTTP layer opens its own store
\* connection and releases it before the operation completes, on the
\* success path and on every error path: once a request has completed, no
\* connection it opened is still open.
C18_CompletedRequestsHoldNoConnection ==
    \A r \in Reqs : req[r].pc = "idle" => ~req[r].db_open

====
